---- MODULE Spec2Model ----
(***************************************************************************)
(* Model of rpmpack's header.go: the typed index entries, the index and    *)
(* its Write serialisation (sorted tags, alignment padding, eigenHeader),  *)
(* and the 96-byte Lead.                                                   *)
(*                                                                         *)
(* Bytes are integers 0..255, byte slices and strings are sequences of     *)
(* bytes.  Go's int values that reach an int32(...) conversion (tags,      *)
(* counts, offsets) stay far inside the int32 range in every modelled      *)
(* state, where the conversion keeps the value; the int32 -> 4 byte        *)
(* big-endian encoding is modelled in full (two's complement).             *)
(***************************************************************************)
EXTENDS Integers, Sequences, FiniteSets, TLC

VARIABLES idx, last, addLog, saIn, saOut, leadIn, leadOut

vars == <<idx, last, addLog, saIn, saOut, leadIn, leadOut>>

(***************************** bounds **************************************)
\* tags added to an index are drawn from 1..MaxTag
MaxTag == 3
\* a modelled sink rejects at most MaxRejects of the writes of one Write call
MaxRejects == 1
\* number of Add calls recorded in the history specification
MaxAdds == 3
\* StringArrayEntry inputs: at most MaxStrs strings of at most MaxStrLen bytes
MaxStrs == 2
MaxStrLen == 2
\* Lead inputs: names of 0..MaxNameLen bytes
MaxNameLen == 66

(************************** program constants ******************************)
signatures == 62
immutable == 63
typeInt32 == 4
typeBinary == 7
typeStringArray == 8

\* var boundaries = map[int]int{typeInt32: 4}
boundaries == [t \in {typeInt32} |-> 4]

(***************************** bytes ***************************************)
RECURSIVE Zeros(_)
\* make([]byte, n)
Zeros(n) == IF n <= 0 THEN <<>> ELSE <<0>> \o Zeros(n - 1)

\* the four big-endian bytes of a value 0 <= y < 2^31, top bit taken from hi
BE31(y, hi) ==
    << hi + (y \div 16777216), (y \div 65536) % 256, (y \div 256) % 256, y % 256 >>

\* binary.Write(b, binary.BigEndian, int32(x)): two's complement, big-endian
Int32Bytes(x) ==
    IF x >= 0 THEN BE31(x, 0) ELSE BE31((x + 2147483647) + 1, 128)

RECURSIVE Int32sBytes(_)
\* binary.Write(b, binary.BigEndian, []int32{...})
Int32sBytes(s) ==
    IF s = <<>> THEN <<>> ELSE Int32Bytes(Head(s)) \o Int32sBytes(Tail(s))

RECURSIVE Join(_, _)
\* bytes.Join(b, sep): the slices of b with sep between consecutive ones
Join(b, sep) ==
    IF b = <<>> THEN <<>>
    ELSE IF Len(b) = 1 THEN b[1]
    ELSE b[1] \o sep \o Join(Tail(b), sep)

(************************** entry constructors *****************************)
indexEntry(rpmtype, count, data) ==
    [rpmtype |-> rpmtype, count |-> count, data |-> data]

\* func (e indexEntry) indexBytes(tag, contentOffset int) []byte
indexBytes(e, tag, contentOffset) ==
    Int32sBytes(<<tag, e.rpmtype, contentOffset, e.count>>)

\* StringArrayEntry without the byte appended after the join
StringArrayEntryNoTerminator(value) ==
    indexEntry(typeStringArray, Len(value), Join(value, <<0>>))

StringArrayEntry(value) ==
    indexEntry(typeStringArray, Len(value), Join(value, <<0>>) \o <<0>>)

BinaryEntry(value) == indexEntry(typeBinary, Len(value), value)

Int32Entry(value) == indexEntry(typeInt32, Len(value), Int32sBytes(value))

(******************************* index *************************************)
\* func NewIndex(h int) *index; size is the struct's zero value
NewIndex(h) == [entries |-> <<>>, size |-> 0, h |-> h]

\* Add that keeps the entry a tag already has
indexAddKeepFirst(ix, tag, e) ==
    [ix EXCEPT !.entries =
        [k \in (DOMAIN ix.entries) \cup {tag} |->
            IF k \in DOMAIN ix.entries THEN ix.entries[k] ELSE e]]

\* func (i *index) Add: i.entries[tag] = e
indexAdd(ix, tag, e) ==
    [ix EXCEPT !.entries =
        [k \in (DOMAIN ix.entries) \cup {tag} |-> IF k = tag THEN e ELSE ix.entries[k]]]

\* the orders in which `for k := range i.entries` may visit the keys
rangeOrders(m) ==
    {o \in [1..Cardinality(DOMAIN m) -> DOMAIN m] :
        \A a, b \in DOMAIN o : a # b => o[a] # o[b]}

RECURSIVE insertInt(_, _)
insertInt(s, x) ==
    IF s = <<>> THEN <<x>>
    ELSE IF x <= Head(s) THEN <<x>> \o s
    ELSE <<Head(s)>> \o insertInt(Tail(s), x)

RECURSIVE sortInts(_)
\* sort.Ints
sortInts(t) == IF t = <<>> THEN <<>> ELSE insertInt(sortInts(Tail(t)), Head(t))

\* sortedTags without the sort
sortedTagsUnsorted(order) == order

\* func (i *index) sortedTags() []int, with the keys visited in `order`
sortedTags(order) == sortInts(order)

\* pad without the test offset%b != 0
padAlways(rpmtype, offset) ==
    IF rpmtype \in DOMAIN boundaries
    THEN Zeros(boundaries[rpmtype] - (offset % boundaries[rpmtype]))
    ELSE <<>>

\* func pad: the bytes pad writes to w
pad(rpmtype, offset) ==
    IF rpmtype \in DOMAIN boundaries /\ (offset % boundaries[rpmtype]) # 0
    THEN Zeros(boundaries[rpmtype] - (offset % boundaries[rpmtype]))
    ELSE <<>>

\* eigenHeader that does not count the pseudo-entry itself
eigenHeaderNoSelf(ix) ==
    BinaryEntry(Int32sBytes(
        <<ix.h, typeBinary, -(16 * Cardinality(DOMAIN ix.entries)), 16>>))

\* func (i *index) eigenHeader() indexEntry
eigenHeader(ix) ==
    BinaryEntry(Int32sBytes(
        <<ix.h, typeBinary, -(16 * (Cardinality(DOMAIN ix.entries) + 1)), 16>>))

RECURSIVE writeEntries(_, _, _, _)
\* the loop of Write that fills entryData and offsets
writeEntries(ix, tags, ii, st) ==
    IF ii > Len(tags) THEN st
    ELSE LET e == ix.entries[tags[ii]]
             padded == st.entryData \o pad(e.rpmtype, Len(st.entryData))
         IN writeEntries(ix, tags, ii + 1,
                [entryData |-> padded \o e.data,
                 offsets   |-> Append(st.offsets, Len(padded))])

\* 4 magic and 4 reserved
headerMagic == <<142, 173, 232, 1, 0, 0, 0, 0>>

\* the count without the pseudo-entry
countAndSizeNoEigen(ix, entryData) ==
    Int32sBytes(<<Cardinality(DOMAIN ix.entries), Len(entryData)>>)

\* 4 count and 4 size; the pseudo-entry is added to the count
countAndSize(ix, entryData) ==
    Int32sBytes(<<Cardinality(DOMAIN ix.entries) + 1, Len(entryData)>>)

\* func (i *index) Write(w io.Writer) error.  `order` is the order in which the
\* map is ranged over, `rejects` the numbers (1, 2, ...) of the writes of this
\* call that the sink w answers with an error.  The result lists the writes
\* issued to w, each with the sink's answer, and whether Write returned an error.
Write(ix, order, rejects) ==
    LET tags == sortedTags(order)
        st == writeEntries(ix, tags, 1, [entryData |-> <<>>, offsets |-> <<>>])
        entryData == st.entryData \o eigenHeader(ix).data
        issue(k, data) == [data |-> data, ok |-> k \notin rejects]
        w1 == issue(1, headerMagic)
        w2 == issue(2, countAndSize(ix, entryData))
        w3 == issue(3, indexBytes(eigenHeader(ix), ix.h, Len(entryData) - 16))
        ws == [ii \in 1..Len(tags) |->
                  issue(3 + ii, indexBytes(ix.entries[tags[ii]], tags[ii], st.offsets[ii]))]
        w5 == issue(4 + Len(tags), entryData)
    IN IF ~w2.ok
       THEN [writes |-> <<w1, w2>>, err |-> TRUE]
       ELSE [writes |-> <<w1, w2, w3>> \o ws \o <<w5>>, err |-> FALSE]

\* number of writes a complete Write call issues
numWrites(ix) == 4 + Cardinality(DOMAIN ix.entries)

(***************************** Lead ****************************************)
\* Lead that cuts the name at 66 bytes instead of 65
LeadCutAt66(name, version, release) ==
    LET s == name \o <<45>> \o version \o <<45>> \o release
        n == IF Len(s) > 66 THEN SubSeq(s, 1, 66) ELSE s
        nn == n \o Zeros(66 - Len(n))
    IN <<237, 171, 238, 219, 3, 0, 0, 0, 0, 1>> \o nn \o <<0, 1, 0, 5>> \o Zeros(16)

\* func Lead(name, version, release string) []byte
Lead(name, version, release) ==
    LET s == name \o <<45>> \o version \o <<45>> \o release
        n == IF Len(s) > 65 THEN SubSeq(s, 1, 65) ELSE s
        nn == n \o Zeros(66 - Len(n))
    IN <<237, 171, 238, 219, 3, 0, 0, 0, 0, 1>> \o nn \o <<0, 1, 0, 5>> \o Zeros(16)

(*************************** inputs ****************************************)
Tags == 1..MaxTag

\* the entries callers add: built by the three constructors, of 4, 1, 2 and 3
\* data bytes, so that an Int32 entry meets every residue of the offset mod 4
EntryPool ==
    { Int32Entry(<<-2>>), BinaryEntry(<<7>>),
      StringArrayEntry(<< <<97>> >>), BinaryEntry(<<1, 2, 3>>) }

\* the pool of the history specification
HistoryPool == { Int32Entry(<<-2>>), BinaryEntry(<<7>>), StringArrayEntry(<< <<97>> >>) }

\* the smaller pool of the two-index specification
PairPool == { Int32Entry(<<-2>>), BinaryEntry(<<7>>) }

SeqsUpTo(S, n) == UNION {[1..k -> S] : k \in 0..n}

Strs == SeqsUpTo({97, 98}, MaxStrLen)
StrLists == SeqsUpTo(Strs, MaxStrs)

Names == {[k \in 1..n |-> 97] : n \in 0..MaxNameLen} \cup {<<112, 107, 103>>}
Versions == {<<>>, <<49, 46, 48>>}
Releases == {<<>>, <<49>>}

\* the sets of write numbers a sink may reject during one Write call
SinkRejects(ix) == {r \in SUBSET (1..numWrites(ix)) : Cardinality(r) <= MaxRejects}

(*************************** actions ***************************************)
\* i.Add(tag, e) on index i; last[i] holds the outcome of the latest Write of
\* index i since its latest Add
Add(i, tag, e) ==
    /\ idx' = [idx EXCEPT ![i] = indexAdd(@, tag, e)]
    /\ last' = [last EXCEPT ![i] = <<>>]

\* i.Write(w) on index i, the map ranged over in `order`, w rejecting `rejects`
WriteTo(i, order, rejects) ==
    /\ last' = [last EXCEPT ![i] = <<Write(idx[i], order, rejects)>>]
    /\ UNCHANGED idx

NoFn == <<saIn, saOut, leadIn, leadOut>>

AddAny ==
    \E i \in DOMAIN idx, tag \in Tags, e \in EntryPool :
        Add(i, tag, e) /\ UNCHANGED <<addLog, NoFn>>

WriteAny ==
    \E i \in DOMAIN idx :
        \E order \in rangeOrders(idx[i].entries), rejects \in SinkRejects(idx[i]) :
            WriteTo(i, order, rejects) /\ UNCHANGED <<addLog, NoFn>>

\* Add with the call recorded in addLog
AddLogged ==
    /\ Len(addLog) < MaxAdds
    /\ \E tag \in Tags, e \in HistoryPool :
          /\ Add(1, tag, e)
          /\ addLog' = Append(addLog, <<tag, e>>)
    /\ UNCHANGED NoFn

\* Write to a sink that accepts every write
WriteReliable ==
    \E i \in DOMAIN idx :
        \E order \in rangeOrders(idx[i].entries) :
            WriteTo(i, order, {}) /\ UNCHANGED <<addLog, NoFn>>

PairAdd ==
    \E i \in DOMAIN idx, tag \in Tags, e \in PairPool :
        Add(i, tag, e) /\ UNCHANGED <<addLog, NoFn>>

ApplyStringArrayEntry ==
    /\ saOut = <<>>
    /\ saOut' = <<StringArrayEntry(saIn)>>
    /\ UNCHANGED <<idx, last, addLog, saIn, leadIn, leadOut>>

ApplyLead ==
    /\ leadOut = <<>>
    /\ leadOut' = <<Lead(leadIn[1], leadIn[2], leadIn[3])>>
    /\ UNCHANGED <<idx, last, addLog, saIn, saOut, leadIn>>

(************************* specifications **********************************)
NoIndex == idx = <<>> /\ last = <<>> /\ addLog = <<>>
NoStr == saIn = <<>> /\ saOut = <<>>
NoLead == leadIn = <<>> /\ leadOut = <<>>

\* one index, written to sinks that accept every write
Init ==
    /\ \E h \in {signatures, immutable} : idx = [i \in {1} |-> NewIndex(h)]
    /\ last = [i \in {1} |-> <<>>]
    /\ addLog = <<>>
    /\ NoStr /\ NoLead

Next == AddAny \/ WriteReliable

Spec == Init /\ [][Next]_vars

\* one index, written to sinks that may reject writes
NextSink == AddAny \/ WriteAny

SpecSink == Init /\ [][NextSink]_vars

\* one index with the history of its Add calls, written to a reliable sink
NextHistory == AddLogged \/ WriteReliable

SpecHistory == Init /\ [][NextHistory]_vars

\* two indexes of the same regionTag, written to reliable sinks
InitPair ==
    /\ \E h \in {signatures, immutable} : idx = [i \in {1, 2} |-> NewIndex(h)]
    /\ last = [i \in {1, 2} |-> <<>>]
    /\ addLog = <<>>
    /\ NoStr /\ NoLead

NextPair == PairAdd \/ WriteReliable

SpecPair == InitPair /\ [][NextPair]_vars

\* StringArrayEntry applied to every bounded list of strings
InitStr == NoIndex /\ NoLead /\ saIn \in StrLists /\ saOut = <<>>

NextStr == ApplyStringArrayEntry

SpecStr == InitStr /\ [][NextStr]_vars

\* Lead applied to bounded name, version and release
InitLead ==
    /\ NoIndex /\ NoStr
    /\ leadIn \in Names \X Versions \X Releases
    /\ leadOut = <<>>

NextLead == ApplyLead

SpecLead == InitLead /\ [][NextLead]_vars

(********************* reading a Write call's outcome **********************)
\* the signed value of four big-endian bytes
BE32Val(b) ==
    LET y == (b[1] % 128) * 16777216 + b[2] * 65536 + b[3] * 256 + b[4]
    IN IF b[1] >= 128 THEN (y - 2147483647) - 1 ELSE y

\* the k-th 32-bit field (k = 1, 2, ...) of a byte sequence
Field(b, k) == BE32Val(SubSeq(b, 4 * k - 3, 4 * k))

RECURSIVE Flatten(_)
Flatten(ws) == IF ws = <<>> THEN <<>> ELSE Head(ws).data \o Flatten(Tail(ws))

\* the bytes a call handed to its sink, in order
Issued(o) == Flatten(o.writes)

Rejected(o) == {k \in DOMAIN o.writes : ~o.writes[k].ok}

\* the tags of a set in ascending order
Ascending(S) ==
    CHOOSE s \in [1..Cardinality(S) -> S] : \A a, b \in DOMAIN s : a < b => s[a] < s[b]

\* index i has been written since its latest Add
Written(i) == last[i] # <<>>
\* ... and that Write call returned nil
WrittenNil(i) == Written(i) /\ ~last[i][1].err

\* of a call that returned nil on an index of n entries: the sentinel's
\* descriptor, the k-th real descriptor, the data blob
EigenDesc(o) == o.writes[3].data
Desc(o, k) == o.writes[3 + k].data
Blob(o) == o.writes[Len(o.writes)].data

\* where the k-th entry's data starts and ends in the blob, by its descriptor
StartOf(o, k) == Field(Desc(o, k), 3)
EndOf(o, es, tags, k) == IF k = 0 THEN 0 ELSE StartOf(o, k) + Len(es[tags[k]].data)

(******************************* claims ************************************)
\* C1: if the sink rejects any write of a Write call, the call returns a
\* non-nil error; it returns nil only when every write succeeded.
C1_SinkFailureReturned ==
    \A i \in DOMAIN idx :
        Written(i) => (Rejected(last[i][1]) # {} => last[i][1].err)

\* C10: once the sink has rejected a write, the call issues no further write:
\* a rejected write is the last one issued.
C10_NoWriteAfterRejection ==
    \A i \in DOMAIN idx :
        Written(i) =>
            \A k \in Rejected(last[i][1]) : k = Len(last[i][1].writes)

\* C3 as stated: the sentinel's descriptor carries tag = regionTag, type =
\* Binary, count = 16 and offset = -(16*(n+1)), the value of its payload.
C3_DescriptorOffsetNegative ==
    \A i \in DOMAIN idx :
        WrittenNil(i) =>
            LET d == EigenDesc(last[i][1])
                n == Cardinality(DOMAIN idx[i].entries)
            IN /\ Field(d, 1) = idx[i].h
               /\ Field(d, 2) = typeBinary
               /\ Field(d, 3) = -(16 * (n + 1))
               /\ Field(d, 4) = 16

\* C3 amended: the sentinel's descriptor is the first of the table and carries
\* tag = regionTag, type = Binary, count = 16 and offset = blob length - 16,
\* where the sentinel's payload starts in the blob; the payload, the last 16
\* bytes of the blob, carries the same tag, type and count and the offset
\* -(16*(n+1)).
C3_SentinelDescriptor ==
    \A i \in DOMAIN idx :
        WrittenNil(i) =>
            LET o == last[i][1]
                d == EigenDesc(o)
                n == Cardinality(DOMAIN idx[i].entries)
                blob == Blob(o)
                payload == SubSeq(blob, Len(blob) - 15, Len(blob))
            IN /\ Len(d) = 16
               /\ Field(d, 1) = idx[i].h
               /\ Field(d, 2) = typeBinary
               /\ Field(d, 3) = Len(blob) - 16
               /\ Field(d, 4) = 16
               /\ Field(payload, 1) = idx[i].h
               /\ Field(payload, 2) = typeBinary
               /\ Field(payload, 3) = -(16 * (n + 1))
               /\ Field(payload, 4) = 16

\* a Write that returned nil on an index of two entries, the descriptor's
\* offset 5 and the payload's -48
C3_Witness ==
    /\ WrittenNil(1)
    /\ Cardinality(DOMAIN idx[1].entries) = 2
    /\ Field(EigenDesc(last[1][1]), 3) = 5
    /\ Field(SubSeq(Blob(last[1][1]), 6, 21), 3) = -48

\* C4: in ascending tag order, an Int32 entry met at blob length o with o % 4 # 0
\* is preceded by exactly 4 - o % 4 zero bytes, every other entry and the
\* sentinel payload by none; the descriptor's offset is the blob length after
\* the padding, where the entry's data starts; Int32 offsets are multiples of 4.
C4_Alignment ==
    \A i \in DOMAIN idx :
        WrittenNil(i) =>
            LET o == last[i][1]
                es == idx[i].entries
                tags == Ascending(DOMAIN es)
                n == Len(tags)
                blob == Blob(o)
            IN /\ \A k \in 1..n :
                    LET e == es[tags[k]]
                        pre == EndOf(o, es, tags, k - 1)
                        start == StartOf(o, k)
                    IN /\ start - pre =
                            IF e.rpmtype = typeInt32 /\ pre % 4 # 0
                            THEN 4 - (pre % 4) ELSE 0
                       /\ \A j \in (pre + 1)..start : blob[j] = 0
                       /\ SubSeq(blob, start + 1, start + Len(e.data)) = e.data
                       /\ e.rpmtype = typeInt32 => start % 4 = 0
               /\ Len(blob) = EndOf(o, es, tags, n) + 16

\* an Int32 entry met at offset 1 and padded by 3, after it a Binary entry at
\* offset 8 and the sentinel payload at the unaligned offset 11
C4_Witness ==
    /\ WrittenNil(1)
    /\ DOMAIN idx[1].entries = {1, 2, 3}
    /\ idx[1].entries[1] = BinaryEntry(<<7>>)
    /\ idx[1].entries[2] = Int32Entry(<<-2>>)
    /\ idx[1].entries[3] = BinaryEntry(<<1, 2, 3>>)
    /\ StartOf(last[1][1], 2) = 4
    /\ StartOf(last[1][1], 3) = 8
    /\ Len(Blob(last[1][1])) = 27

\* C5: whatever the order of the Add calls, the descriptors after the
\* sentinel's are one per tag of the index, in strictly ascending tag order,
\* each describing that tag's entry, and the entries' data lie in the blob in
\* the same order.
C5_AscendingTags ==
    \A i \in DOMAIN idx :
        WrittenNil(i) =>
            LET o == last[i][1]
                es == idx[i].entries
                tags == Ascending(DOMAIN es)
                n == Len(tags)
            IN /\ Len(o.writes) = n + 4
               /\ \A k \in 1..n :
                    /\ Len(Desc(o, k)) = 16
                    /\ Field(Desc(o, k), 1) = tags[k]
                    /\ Field(Desc(o, k), 2) = es[tags[k]].rpmtype
                    /\ Field(Desc(o, k), 4) = es[tags[k]].count
                    /\ StartOf(o, k) >= EndOf(o, es, tags, k - 1)
                    /\ SubSeq(Blob(o), StartOf(o, k) + 1,
                              StartOf(o, k) + Len(es[tags[k]].data)) = es[tags[k]].data
               /\ \A k \in 1..(n - 1) : Field(Desc(o, k), 1) < Field(Desc(o, k + 1), 1)

\* tags added in the order 3, 1, 2 and the index written
C5_Witness ==
    /\ WrittenNil(1)
    /\ Len(addLog) = 3
    /\ addLog[1][1] = 3 /\ addLog[2][1] = 1 /\ addLog[3][1] = 2
    /\ Field(Desc(last[1][1], 1), 1) = 1
    /\ Field(Desc(last[1][1], 3), 1) = 3

RECURSIVE Terminated(_)
\* each string followed by one NUL byte, in order
Terminated(strs) ==
    IF strs = <<>> THEN <<>> ELSE Head(strs) \o <<0>> \o Terminated(Tail(strs))

\* C2 as stated: type StringArray, count k, data = each string followed by
\* one NUL, then one additional trailing NUL (length = sum + k + 1).
C2_AdditionalTrailingNul ==
    saOut # <<>> =>
        saOut[1] = [rpmtype |-> typeStringArray, count |-> Len(saIn),
                    data |-> Terminated(saIn) \o <<0>>]

\* C2 amended: type StringArray, count k, data = the strings with one NUL
\* between consecutive ones and one NUL at the end: for k >= 1 each string
\* followed by one NUL and nothing more (["a","bb"] gives the 5 bytes
\* a,0,b,b,0; length = sum + k), for k = 0 the single byte 0.
C2_StringArrayData ==
    saOut # <<>> =>
        /\ saOut[1].rpmtype = typeStringArray
        /\ saOut[1].count = Len(saIn)
        /\ saOut[1].data = IF saIn = <<>> THEN <<0>> ELSE Terminated(saIn)
        /\ saIn = << <<97>>, <<98, 98>> >> => saOut[1].data = <<97, 0, 98, 98, 0>>

\* StringArrayEntry applied to ["a","bb"]
C2_Witness ==
    /\ saIn = << <<97>>, <<98, 98>> >>
    /\ saOut # <<>>
    /\ Len(saOut[1].data) = 5

\* the bytes accepted by the sink of a call none of whose writes was rejected
Complete(i) == WrittenNil(i) /\ Rejected(last[i][1]) = {}

\* C6: Write is deterministic and leaves the index alone: a Write of an index
\* written before, with no Add in between, yields the same stream and changes
\* neither the entries nor the regionTag, and two indexes holding the same
\* entries and regionTag, however built, yield the same stream.
C6_Deterministic ==
    /\ [](\A i, j \in DOMAIN idx :
            (/\ Complete(i) /\ Complete(j)
             /\ idx[i].entries = idx[j].entries
             /\ idx[i].h = idx[j].h)
            => Issued(last[i][1]) = Issued(last[j][1]))
    /\ [][\A i \in DOMAIN idx :
            last'[i] # <<>> =>
                /\ idx'[i] = idx[i]
                /\ last[i] # <<>> => Issued(last'[i][1]) = Issued(last[i][1])]_vars

\* two indexes holding the same three entries, both written
C6_Witness ==
    /\ Complete(1) /\ Complete(2)
    /\ DOMAIN idx[1].entries = {1, 2, 3}
    /\ idx[1] = idx[2]
    /\ idx[1].entries[1] = BinaryEntry(<<7>>)
    /\ idx[1].entries[3] = Int32Entry(<<-2>>)

\* the latest Add of tag t in the log
LatestAdd(t) ==
    LET k == CHOOSE a \in DOMAIN addLog :
                 /\ addLog[a][1] = t
                 /\ \A b \in DOMAIN addLog : addLog[b][1] = t => b <= a
    IN addLog[k][2]

\* C7: the index holds one entry per distinct tag added, the one of the latest
\* Add of that tag, and a Write reports the number of distinct tags (plus the
\* sentinel), not the number of Add calls.
C7_LatestAddWins ==
    LET added == {addLog[k][1] : k \in DOMAIN addLog}
        es == idx[1].entries
    IN /\ DOMAIN es = added
       /\ \A t \in added : es[t] = LatestAdd(t)
       /\ Written(1) =>
            /\ ~last[1][1].err
            /\ Field(last[1][1].writes[2].data, 1) = Cardinality(added) + 1
            /\ Len(last[1][1].writes) = Cardinality(added) + 4

\* tag 2 added twice with different entries, tag 1 once, then a Write that
\* reports 3 = 2 distinct tags + 1
C7_Witness ==
    /\ Len(addLog) = 3
    /\ addLog[1] = <<2, BinaryEntry(<<7>>)>>
    /\ addLog[2][1] = 1
    /\ addLog[3] = <<2, Int32Entry(<<-2>>)>>
    /\ Written(1)
    /\ Field(last[1][1].writes[2].data, 1) = 3
    /\ idx[1].entries[2] = Int32Entry(<<-2>>)

RECURSIVE SumData(_, _)
SumData(es, S) ==
    IF S = {} THEN 0
    ELSE LET t == CHOOSE x \in S : TRUE IN Len(es[t].data) + SumData(es, S \ {t})

\* C8: the stream of an index of n entries is the 8 preamble bytes, the count
\* n+1, the size = length of the blob at the end, n+1 descriptors of 16 bytes
\* and the blob (the entries' data with their padding, then the sentinel's 16
\* bytes); with no entry it is count 1, size 16, one descriptor, the payload.
C8_StreamLayout ==
    \A i \in DOMAIN idx :
        WrittenNil(i) =>
            LET st == Issued(last[i][1])
                es == idx[i].entries
                n == Cardinality(DOMAIN es)
                size == Field(SubSeq(st, 9, 16), 2)
                data == SumData(es, DOMAIN es)
            IN /\ SubSeq(st, 1, 8) = <<142, 173, 232, 1, 0, 0, 0, 0>>
               /\ Field(SubSeq(st, 9, 16), 1) = n + 1
               /\ Len(st) = 16 + 16 * (n + 1) + size
               /\ size = Len(Blob(last[i][1]))
               /\ SubSeq(st, 16 + 16 * (n + 1) + 1, Len(st)) = Blob(last[i][1])
               /\ size >= data + 16
               /\ size <= data + 16 + 3 * n
               /\ Field(SubSeq(st, 17, 32), 1) = idx[i].h
               /\ Field(SubSeq(st, Len(st) - 15, Len(st)), 1) = idx[i].h
               /\ n = 0 => st = <<142, 173, 232, 1, 0, 0, 0, 0, 0, 0, 0, 1, 0, 0, 0, 16>>
                                \o Int32sBytes(<<idx[i].h, typeBinary, 0, 16>>)
                                \o Int32sBytes(<<idx[i].h, typeBinary, -16, 16>>)

\* the empty index written: 48 bytes
C8_WitnessEmpty ==
    /\ Complete(1)
    /\ idx[1].entries = <<>>
    /\ Len(Issued(last[1][1])) = 48

\* the joined string of Lead's input
Joined == leadIn[1] \o <<45>> \o leadIn[2] \o <<45>> \o leadIn[3]

\* C9: Lead returns 96 bytes: ed ab ee db, at bytes 10-75 the joined string cut
\* to at most 65 bytes and filled with zeros to 66 (byte 75 is zero), then the
\* OS field, the signature-type field and 16 zero bytes.
C9_LeadLayout ==
    leadOut # <<>> =>
        LET b == leadOut[1]
            m == IF Len(Joined) > 65 THEN 65 ELSE Len(Joined)
        IN /\ Len(b) = 96
           /\ SubSeq(b, 1, 4) = <<237, 171, 238, 219>>
           /\ SubSeq(b, 11, 10 + m) = SubSeq(Joined, 1, m)
           /\ \A j \in (11 + m)..76 : b[j] = 0
           /\ b[76] = 0
           /\ SubSeq(b, 77, 80) = <<0, 1, 0, 5>>
           /\ \A j \in 81..96 : b[j] = 0

\* a joined string of exactly 66 bytes, "a...a-1.0-1", cut to 65: the name
\* field ends with the '-' and a zero byte
C9_Witness ==
    /\ leadOut # <<>>
    /\ Len(Joined) = 66
    /\ leadOut[1][75] = 45
    /\ leadOut[1][76] = 0

====
